---- MODULE Spec2Model ----
(***************************************************************************)
(* A model of the source bundler (src/src/lib.rs): Bundler::run and the    *)
(* recursive expansion binrs -> librs -> usemod, stepped one input line at *)
(* a time over an explicit call stack.  Text is modelled as sequences of   *)
(* characters so that the regular expressions, trim_end and the minify     *)
(* replacement are computed, not assumed.                                  *)
(***************************************************************************)
EXTENDS Integers, Sequences, FiniteSets, TLC

\* ------------------------------------------------------------------ bounds
\* Module files exist only for path stems of at most MaxDepth segments.
MaxDepth == 2
\* Number of run() calls in one behaviour.
MaxRuns == 2

\* ------------------------------------------------- string literals of lib.rs
S_src == <<"s", "r", "c", "/">>
S_rs == <<".", "r", "s">>
S_mod_rs == <<"/", "m", "o", "d", ".", "r", "s">>
S_slash == <<"/">>
S_colons == <<":", ":">>
S_semi == <<";">>
S_comment == <<"/", "/">>
S_warn == <<"#", "!", "[", "w", "a", "r", "n", "(">>
S_extern_crate == <<"e", "x", "t", "e", "r", "n", " ", "c", "r", "a", "t", "e", " ">>
S_use == <<"u", "s", "e", " ">>
S_pub_mod == <<"p", "u", "b", " ", "m", "o", "d", " ">>
S_open == <<" ", "{">>
S_close == <<"}">>
S_tests == <<"t", "e", "s", "t", "s">>
LIBRS_FILENAME == <<"s", "r", "c", "/", "l", "i", "b", ".", "r", "s">>
BINRS_FILENAME == <<"s", "r", "c", "/", "m", "a", "i", "n", ".", "r", "s">>

\* ----------------------------------------------------- input text (the files)
Demo == <<"d", "e", "m", "o">>
L_use_a == <<"u", "s", "e", " ", "d", "e", "m", "o", ":", ":", "a", ";">>
L_use_ab == <<"u", "s", "e", " ", "d", "e", "m", "o", ":", ":", "a", ":", ":", "b", ";">>
L_use_u == <<"u", "s", "e", " ", "d", "e", "m", "o", ":", ":", "u", ";">>
L_cmt_use == <<" ", "/", "/", " ", "u", "s", "e", " ", "d", "e", "m", "o", ":", ":", "a", ";">>
L_ext_lead == <<" ", " ", "e", "x", "t", "e", "r", "n", " ", "c", "r", "a", "t", "e", " ", "d", "e", "m", "o", ";">>
L_ext_trail == <<"e", "x", "t", "e", "r", "n", " ", "c", "r", "a", "t", "e", " ", "d", "e", "m", "o", ";", " ">>
L_cmt_ext == <<"/", "/", " ", "e", "x", "t", "e", "r", "n", " ", "c", "r", "a", "t", "e", " ", "d", "e", "m", "o", ";">>
L_warn == <<"#", "!", "[", "w", "a", "r", "n", "(", "x", ")", "]">>
L_warn_lead == <<" ", " ", "#", "!", "[", "w", "a", "r", "n", "(", "x", ")", "]">>
L_main == <<" ", " ", "m", "a", "i", "n", "(", ")", ";">>
L_mod_a == <<"p", "u", "b", " ", "m", "o", "d", " ", "a", ";">>
L_mod_b == <<"p", "u", "b", " ", "m", "o", "d", " ", "b", ";">>
L_mod_b_ws == <<" ", " ", "p", "u", "b", " ", "m", "o", "d", " ", "b", ";", " ">>
L_mod_tests == <<"p", "u", "b", " ", "m", "o", "d", " ", "t", "e", "s", "t", "s", ";">>
L_cmt_mod == <<"/", "/", " ", "p", "u", "b", " ", "m", "o", "d", " ", "a", ";">>
L_f == <<" ", " ", "f", "(", ")", ";">>
L_brace == <<"}">>
L_stale == <<"s", "t", "a", "l", "e">>

\* The files the run may find on disk.  A file is [exists, lines]; a line is
\* the text read_line returns without its newline (trailing blanks kept).
Absent == [exists |-> FALSE, lines |-> <<>>]
File(ls) == [exists |-> TRUE, lines |-> ls]

EntryFiles ==
  { File(<<L_use_a, L_cmt_ext, L_ext_lead, L_ext_trail, L_use_a, L_use_ab,
           L_use_u>>),
    File(<<L_cmt_use, L_warn, L_use_a, L_main>>) }

LibFiles ==
  { File(<<L_mod_a, L_use_a, L_mod_b>>),
    File(<<L_cmt_mod, L_mod_tests, L_warn_lead, L_f>>) }

NestBody == File(<<L_cmt_mod, L_mod_tests, L_warn_lead, L_use_ab, L_mod_b_ws>>)
LeafBody == File(<<L_f, L_use_a>>)
DirBody == File(<<L_brace, L_f>>)

CrateNames == {Demo}

\* ------------------------------------------------------------ text helpers
IsWs(c) == c \in {" ", "\t"}

HasPrefix(s, p) == Len(s) >= Len(p) /\ SubSeq(s, 1, Len(p)) = p

HasSuffix(s, p) == Len(s) >= Len(p) /\ SubSeq(s, Len(s) - Len(p) + 1, Len(s)) = p

RECURSIVE LeadWs(_)
\* number of characters the leading \s* of a pattern consumes
LeadWs(s) == IF s # <<>> /\ IsWs(Head(s)) THEN 1 + LeadWs(Tail(s)) ELSE 0

\* what is left of the line after ^\s*
AfterWs(s) == SubSeq(s, LeadWs(s) + 1, Len(s))

RECURSIVE trim_end(_)
trim_end(s) ==
  IF s # <<>> /\ IsWs(s[Len(s)]) THEN trim_end(SubSeq(s, 1, Len(s) - 1)) ELSE s

RECURSIVE Count(_, _)
Count(s, c) ==
  IF s = <<>> THEN 0 ELSE (IF Head(s) = c THEN 1 ELSE 0) + Count(Tail(s), c)

\* --------------------------------------------------- the regular expressions
\* ^\s*//
comment_re(line) == HasPrefix(AfterWs(line), S_comment)

\* ^\s*#!\[warn\(.*
warn_re(line) == HasPrefix(AfterWs(line), S_warn)

\* ^extern crate <name>;$
extcrate_re(name, line) == line = S_extern_crate \o name \o S_semi

\* ^use <name>::(.*);$   and its capture group 1
usecrate_re(name, line) ==
  /\ HasPrefix(line, S_use \o name \o S_colons)
  /\ Len(line) >= Len(S_use) + Len(name) + Len(S_colons) + Len(S_semi)
  /\ HasSuffix(line, S_semi)

usecrate_cap(name, line) ==
  SubSeq(line, Len(S_use) + Len(name) + Len(S_colons) + 1, Len(line) - Len(S_semi))

\* ^\s*pub mod (.+);$   and its capture group 1
mod_re(line) ==
  /\ HasPrefix(AfterWs(line), S_pub_mod)
  /\ Len(AfterWs(line)) >= Len(S_pub_mod) + 1 + Len(S_semi)
  /\ HasSuffix(line, S_semi)

mod_cap(line) ==
  SubSeq(AfterWs(line), Len(S_pub_mod) + 1, Len(AfterWs(line)) - Len(S_semi))

\* ^\s*(?P<contents>.*)\s*$ replaced by $contents: the greedy .* takes the rest
\* of the line, so only the leading blanks go.
minify_replace(line) == AfterWs(line)

\* ------------------------------------------------------------------- state
VARIABLES
  fs,           \* the files opened so far: path -> file (fixed once opened)
  bundle,       \* the output file: a sequence of written lines
  status,       \* "constructed", "created", "running", "done", "panic_*"
  stack,        \* the call stack binrs / librs / usemod with read positions
  skip_use,     \* Bundler.skip_use
  minify_re,    \* Bundler.minify_re is Some
  _crate_name,  \* Bundler._crate_name
  log           \* one record per run() call: what it started from and
                \* what it left

vars == <<fs, bundle, status, stack, skip_use, minify_re, _crate_name, log>>

\* A written line with where it came from: the source line (path, pos) that
\* made the program write it, and key, its place in the module tree.
Rec(text, kind, key, path, pos) ==
  [text |-> text, kind |-> kind, key |-> key, path |-> path, pos |-> pos,
   run |-> Len(log)]

Frame(fn, path, mod_name, mod_path, mod_import, addr, dpath, dpos) ==
  [fn |-> fn, path |-> path, pos |-> 1, mod_name |-> mod_name,
   mod_path |-> mod_path, mod_import |-> mod_import, addr |-> addr,
   dpath |-> dpath, dpos |-> dpos]

Top == stack[Len(stack)]
AtEOF == Top.pos > Len(fs[Top.path].lines)
CurLine == fs[Top.path].lines[Top.pos]
Advance(stk) == [stk EXCEPT ![Len(stk)].pos = @ + 1]

Panicked == status \in {"panic_entry", "panic_lib", "panic_mod"}
Finished == status = "done" \/ Panicked

\* ---------------------------------------------------------- the file system
IsDirIndex(path) == HasSuffix(path, S_mod_rs)
Depth(path) == Count(path, "/") - (IF IsDirIndex(path) THEN 2 ELSE 1)

FilePool(path) ==
  IF path = BINRS_FILENAME THEN EntryFiles \cup {Absent}
  ELSE IF path = LIBRS_FILENAME THEN LibFiles \cup {Absent}
  ELSE IF Depth(path) > MaxDepth THEN {Absent}
  ELSE IF IsDirIndex(path) THEN {Absent, DirBody}
  ELSE {Absent, NestBody, LeafBody}

\* File::open(path): the file found there, the same at every open.
Open(path) == IF path \in DOMAIN fs THEN {fs[path]} ELSE FilePool(path)
Known(f, path, file) == IF path \in DOMAIN f THEN f ELSE f @@ (path :> file)

\* ------------------------------------------------------------------ Bundler
Init ==
  /\ fs = <<>>
  /\ bundle = <<[text |-> L_stale, kind |-> "stale", key |-> <<>>,
                 path |-> <<>>, pos |-> 0, run |-> 0]>>
  /\ status = "constructed"
  /\ stack = <<>>
  /\ skip_use = {}
  /\ minify_re = FALSE
  /\ _crate_name = <<>>
  /\ log = <<>>

\* Bundler::new for another run: a fresh value, the files on disk as they are.
New ==
  /\ Finished
  /\ Len(log) < MaxRuns
  /\ status' = "constructed"
  /\ skip_use' = {}
  /\ minify_re' = FALSE
  /\ _crate_name' = <<>>
  /\ UNCHANGED <<fs, bundle, stack, log>>

minify_set(enable) ==
  /\ status \in {"constructed", "done"}
  /\ Len(log) < MaxRuns
  /\ minify_re' = enable
  /\ UNCHANGED <<fs, bundle, status, stack, skip_use, _crate_name, log>>

crate_name(name) ==
  /\ status \in {"constructed", "done"}
  /\ Len(log) < MaxRuns
  /\ _crate_name' = name
  /\ UNCHANGED <<fs, bundle, status, stack, skip_use, minify_re, log>>

\* a variant of create: the file is opened without truncating it
create_m(o) == o

\* File::create: the file is created empty or truncated.
create(o) == <<>>

\* run, up to the call of binrs.
run ==
  /\ status \in {"constructed", "done"}
  /\ Len(log) < MaxRuns
  /\ bundle' = create(bundle)
  /\ status' = "created"
  /\ log' = Append(log, [crate |-> _crate_name, minify |-> minify_re,
                         skip0 |-> skip_use, out |-> <<>>, skip |-> {},
                         status |-> "running"])
  /\ UNCHANGED <<fs, stack, skip_use, minify_re, _crate_name>>

\* The run ends (Ok, or a panic that unwinds the stack): what it left behind.
Ends(st, o, skip) ==
  /\ status' = st
  /\ stack' = <<>>
  /\ log' = [log EXCEPT ![Len(log)] =
               [@ EXCEPT !.out = o, !.skip = skip, !.status = st]]

\* binrs opens the entry file; an error makes run panic.
binrs_open ==
  /\ status = "created"
  /\ \E f \in Open(BINRS_FILENAME) :
       /\ fs' = Known(fs, BINRS_FILENAME, f)
       /\ IF f.exists
          THEN /\ status' = "running"
               /\ stack' = <<Frame("binrs", BINRS_FILENAME, <<>>, <<>>, <<>>,
                                   <<>>, <<>>, 0)>>
               /\ UNCHANGED log
          ELSE Ends("panic_entry", bundle, skip_use)
  /\ UNCHANGED <<bundle, skip_use, minify_re, _crate_name>>

\* a variant of read_line: with minify on, the line is minified before it
\* is classified
read_line_m(raw) ==
  IF minify_re THEN minify_replace(trim_end(raw)) ELSE trim_end(raw)

\* The line a loop classifies: read_line, then trim_end.
read_line(raw) == trim_end(raw)

\* a variant of is_dropped: the lint attribute test is left out
is_dropped_m(line) == comment_re(line)

\* comment_re.is_match(&line) || warn_re.is_match(&line): the line is dropped.
is_dropped(line) == comment_re(line) \/ warn_re(line)

write_line(o, line, key, path, pos) ==
  Append(o, Rec(IF minify_re THEN minify_replace(line) ELSE line,
                "pass", key, path, pos))

\* a variant of binrs_use: the use line is rewritten without looking at
\* skip_use
binrs_use_m(o, moduse, key, path, pos) ==
  Append(o, Rec(S_use \o moduse \o S_semi, "use", key, path, pos))

\* binrs, lines 94-97: the use line of a path not in skip_use, rewritten.
binrs_use(o, moduse, key, path, pos) ==
  IF moduse \notin skip_use
  THEN Append(o, Rec(S_use \o moduse \o S_semi, "use", key, path, pos))
  ELSE o

\* a variant of usemod_expands: the tests test is made in librs only
usemod_expands_m(submodname) == TRUE

\* modname != "tests"
librs_expands(modname) == modname # S_tests
usemod_expands(submodname) == submodname # S_tests

\* a variant of mod_filenames0: the directory index is tried first
mod_filenames0_m(mod_path) ==
  << S_src \o mod_path \o S_mod_rs, S_src \o mod_path \o S_rs >>

mod_filenames0(mod_path) ==
  << S_src \o mod_path \o S_rs, S_src \o mod_path \o S_mod_rs >>

usemod_open(o, mod_name, key, path, pos) ==
  Append(o, Rec(S_pub_mod \o mod_name \o S_open, "open", key, path, pos))

\* a variant of usemod_close: the closing line is not written
usemod_close_m(o, key, path, pos) == o

usemod_close(o, key, path, pos) ==
  Append(o, Rec(S_close, "close", key, path, pos))

\* a variant of skip_insert: the import path is not recorded
skip_insert_m(skip, mod_import) == skip

skip_insert(skip, mod_import) == skip \cup {mod_import}

\* a variant of call: a sub-module met inside a module is expanded only after
\* the declaring module has been read to its end
call_m(stk, frame) ==
  IF stk[Len(stk)].fn = "usemod"
  THEN SubSeq(stk, 1, Len(stk) - 1) \o <<frame, stk[Len(stk)]>>
  ELSE Append(stk, frame)

\* a call: the callee runs to its end before the caller reads its next line
call(stk, frame) == Append(stk, frame)

\* usemod up to its loop: find the file, write the opening line, insert the
\* import path.  stk is the caller's stack, addr the declaration's place.
usemod_found(newfs, path, mod_name, mod_path, mod_import, stk, addr) ==
  /\ fs' = newfs
  /\ bundle' = usemod_open(bundle, mod_name, addr \o <<0>>, Top.path, Top.pos)
  /\ skip_use' = skip_insert(skip_use, mod_import)
  /\ stack' = call(stk, Frame("usemod", path, mod_name, mod_path, mod_import,
                              addr, Top.path, Top.pos))
  /\ UNCHANGED <<status, log>>

usemod_missing(newfs) ==
  /\ fs' = newfs
  /\ Ends("panic_mod", bundle, skip_use)
  /\ UNCHANGED <<bundle, skip_use>>

usemod(mod_name, mod_path, mod_import, stk, addr) ==
  LET fn0 == mod_filenames0(mod_path) IN
  \E f1 \in Open(fn0[1]) :
    LET fs1 == Known(fs, fn0[1], f1) IN
    IF f1.exists
    THEN usemod_found(fs1, fn0[1], mod_name, mod_path, mod_import, stk, addr)
    ELSE \E f2 \in Open(fn0[2]) :
           LET fs2 == Known(fs1, fn0[2], f2) IN
           IF f2.exists
           THEN usemod_found(fs2, fn0[2], mod_name, mod_path, mod_import, stk, addr)
           ELSE usemod_missing(fs2)

\* librs up to its loop: open lib.rs or panic.
librs(stk, addr) ==
  \E f \in Open(LIBRS_FILENAME) :
    /\ fs' = Known(fs, LIBRS_FILENAME, f)
    /\ IF f.exists
       THEN /\ stack' = call(stk, Frame("librs", LIBRS_FILENAME, <<>>, <<>>,
                                        <<>>, addr, Top.path, Top.pos))
            /\ UNCHANGED <<status, log>>
       ELSE Ends("panic_lib", bundle, skip_use)
    /\ UNCHANGED <<bundle, skip_use>>

\* One turn of the loop of binrs (lines 87-101), or its end and run's.
binrs_line ==
  /\ status = "running" /\ stack # <<>> /\ Top.fn = "binrs"
  /\ UNCHANGED <<minify_re, _crate_name>>
  /\ IF AtEOF
     THEN Ends("done", bundle, skip_use) /\ UNCHANGED <<fs, bundle, skip_use>>
     ELSE LET line == read_line(CurLine)
              here == Top.addr \o <<Top.pos>>
          IN IF is_dropped(line)
             THEN /\ stack' = Advance(stack)
                  /\ UNCHANGED <<fs, bundle, skip_use, status, log>>
             ELSE IF extcrate_re(_crate_name, line)
             THEN librs(Advance(stack), here)
             ELSE IF usecrate_re(_crate_name, line)
             THEN /\ bundle' = binrs_use(bundle, usecrate_cap(_crate_name, line),
                                         here, Top.path, Top.pos)
                  /\ stack' = Advance(stack)
                  /\ UNCHANGED <<fs, skip_use, status, log>>
             ELSE /\ bundle' = write_line(bundle, line, here, Top.path, Top.pos)
                  /\ stack' = Advance(stack)
                  /\ UNCHANGED <<fs, skip_use, status, log>>

\* One turn of the loop of librs (lines 113-125), or its return.
librs_line ==
  /\ status = "running" /\ stack # <<>> /\ Top.fn = "librs"
  /\ UNCHANGED <<minify_re, _crate_name>>
  /\ IF AtEOF
     THEN /\ stack' = SubSeq(stack, 1, Len(stack) - 1)
          /\ UNCHANGED <<fs, bundle, skip_use, status, log>>
     ELSE LET line == read_line(CurLine)
              here == Top.addr \o <<Top.pos>>
          IN IF is_dropped(line)
             THEN /\ stack' = Advance(stack)
                  /\ UNCHANGED <<fs, bundle, skip_use, status, log>>
             ELSE IF mod_re(line)
             THEN IF librs_expands(mod_cap(line))
                  THEN usemod(mod_cap(line), mod_cap(line), mod_cap(line),
                              Advance(stack), here)
                  ELSE /\ stack' = Advance(stack)
                       /\ UNCHANGED <<fs, bundle, skip_use, status, log>>
             ELSE /\ bundle' = write_line(bundle, line, here, Top.path, Top.pos)
                  /\ stack' = Advance(stack)
                  /\ UNCHANGED <<fs, skip_use, status, log>>

\* One turn of the loop of usemod (lines 160-174), or the closing line and
\* the return (lines 176-178).
usemod_line ==
  /\ status = "running" /\ stack # <<>> /\ Top.fn = "usemod"
  /\ UNCHANGED <<minify_re, _crate_name>>
  /\ IF AtEOF
     THEN /\ bundle' = usemod_close(bundle, Top.addr \o <<Top.pos>>,
                                    Top.dpath, Top.dpos)
          /\ stack' = SubSeq(stack, 1, Len(stack) - 1)
          /\ UNCHANGED <<fs, skip_use, status, log>>
     ELSE LET line == read_line(CurLine)
              here == Top.addr \o <<Top.pos>>
          IN IF is_dropped(line)
             THEN /\ stack' = Advance(stack)
                  /\ UNCHANGED <<fs, bundle, skip_use, status, log>>
             ELSE IF mod_re(line)
             THEN IF usemod_expands(mod_cap(line))
                  THEN usemod(mod_cap(line),
                              Top.mod_path \o S_slash \o mod_cap(line),
                              Top.mod_import \o S_colons \o mod_cap(line),
                              Advance(stack), here)
                  ELSE /\ stack' = Advance(stack)
                       /\ UNCHANGED <<fs, bundle, skip_use, status, log>>
             ELSE /\ bundle' = write_line(bundle, line, here, Top.path, Top.pos)
                  /\ stack' = Advance(stack)
                  /\ UNCHANGED <<fs, skip_use, status, log>>

Next ==
  \/ New
  \/ \E enable \in BOOLEAN : minify_set(enable)
  \/ \E name \in CrateNames : crate_name(name)
  \/ run
  \/ binrs_open
  \/ binrs_line
  \/ librs_line
  \/ usemod_line

Spec == Init /\ [][Next]_vars

\* ================================================================== claims
Recs == {bundle[i] : i \in DOMAIN bundle}
Written == {r \in Recs : r.kind # "stale"}
SrcLine(r) == trim_end(fs[r.path].lines[r.pos])
Reading == status = "running" /\ stack # <<>> /\ ~AtEOF
ThisCrate == log[Len(log)].crate
Last(o) == o[Len(o)]

\* the line is blanks then //, or blanks then #![warn(
Comment(line) == \E i \in 0..Len(line) :
  /\ \A k \in 1..i : IsWs(line[k])
  /\ Len(line) >= i + 2 /\ line[i + 1] = "/" /\ line[i + 2] = "/"

Lint(line) == \E i \in 0..Len(line) :
  /\ \A k \in 1..i : IsWs(line[k])
  /\ Len(line) >= i + Len(S_warn) /\ SubSeq(line, i + 1, i + Len(S_warn)) = S_warn

\* the path p such that line is exactly "use <name>::<p>;", if there is one
UsePaths(name, line) ==
  {p \in {SubSeq(line, i, Len(line) - 1) : i \in 1..(Len(line) + 1)} :
     line = S_use \o name \o S_colons \o p \o S_semi}

\* ---------------------------------------------------------------------- C1
C1_Step ==
  (Reading /\ Top.fn = "binrs") =>
    \A p \in UsePaths(_crate_name, trim_end(CurLine)) :
      IF p \in skip_use
      THEN bundle' = bundle
      ELSE /\ Len(bundle') = Len(bundle) + 1
           /\ SubSeq(bundle', 1, Len(bundle)) = bundle
           /\ Last(bundle').text = S_use \o p \o S_semi

\* C1: when binrs processes an entry line `use <crate_name>::<path>;`, it
\* writes nothing if <path> is in skip_use at that moment, and otherwise
\* appends exactly one line `use <path>;` (and nothing else changes in the
\* output).
C1_UseRewrittenOrDropped == [][C1_Step]_vars

\* A finished run whose entry file held a use line that was dropped (its path
\* had been inserted by a module expansion) and one that was rewritten though
\* modules had been inserted.
C1_Witness ==
  /\ status = "done"
  /\ skip_use # {}
  /\ \E i \in DOMAIN fs[BINRS_FILENAME].lines :
       /\ UsePaths(ThisCrate, fs[BINRS_FILENAME].lines[i]) \cap skip_use # {}
       /\ ~ \E r \in Written : r.path = BINRS_FILENAME /\ r.pos = i
  /\ \E r \in Written :
       /\ r.kind = "use"
       /\ r.text = S_use \o <<"u">> \o S_semi

\* ---------------------------------------------------------------------- C2
LastSegmentIsTests(p) ==
  \/ p = S_tests
  \/ HasSuffix(p, S_colons \o S_tests)
  \/ HasSuffix(p, S_slash \o S_tests)

IsTestsFile(path) ==
  \/ HasSuffix(path, S_slash \o S_tests \o S_rs)
  \/ HasSuffix(path, S_slash \o S_tests \o S_mod_rs)

\* C2: a `pub mod tests;` declaration, in lib.rs or in a module file at any
\* depth, never leads to a usemod call: no usemod frame for tests, no opening
\* line `pub mod tests {`, no import path ending in tests in skip_use, the
\* tests module's file is never opened and no written line comes from it.
C2_TestsNeverExpanded ==
  /\ \A i \in DOMAIN stack :
       /\ stack[i].mod_name # S_tests
       /\ ~LastSegmentIsTests(stack[i].mod_path)
  /\ \A p \in skip_use : ~LastSegmentIsTests(p)
  /\ \A path \in DOMAIN fs : ~IsTestsFile(path)
  /\ \A r \in Written :
       /\ ~IsTestsFile(r.path)
       /\ r.kind = "open" => r.text # S_pub_mod \o S_tests \o S_open

\* A run went past a `pub mod tests;` line inside the file of a module at
\* nesting depth two (a line after it in the same file was written).
C2_Witness ==
  /\ status = "running"
  /\ \E r \in Written :
       /\ r.kind = "pass"
       /\ r.path \notin {BINRS_FILENAME, LIBRS_FILENAME}
       /\ Depth(r.path) >= 2
       /\ \E i \in 1..(r.pos - 1) :
            trim_end(fs[r.path].lines[i]) = S_pub_mod \o S_tests \o S_semi

\* ---------------------------------------------------------------------- C3
\* the usemod call that wrote an opening or closing line
CallOf(r) == SubSeq(r.key, 1, Len(r.key) - 1)
IsPrefix(a, b) == Len(a) <= Len(b) /\ SubSeq(b, 1, Len(a)) = a
Delta(r) == IF r.kind = "open" THEN 1 ELSE IF r.kind = "close" THEN -1 ELSE 0

\* the depth after the first n lines: opening lines less closing lines
RECURSIVE NestDepth(_, _)
NestDepth(o, n) == IF n = 0 THEN 0 ELSE NestDepth(o, n - 1) + Delta(o[n])

\* scanning from line n at depth d, the depth never goes below zero
RECURSIVE NonNegativeFrom(_, _, _)
NonNegativeFrom(o, n, d) ==
  \/ n > Len(o)
  \/ d + Delta(o[n]) >= 0 /\ NonNegativeFrom(o, n + 1, d + Delta(o[n]))

NeverNegative(o) == NonNegativeFrom(o, 1, 0)

OpenLines(o) == {i \in DOMAIN o : o[i].kind = "open"}

ClosesOf(o, i) ==
  {j \in DOMAIN o : o[j].kind = "close" /\ CallOf(o[j]) = CallOf(o[i])}

\* every written line of the call's body and sub-modules lies between the
\* opening line at i and the closing lines of the same call
BodyInside(o, i) ==
  LET closes == ClosesOf(o, i)
      whose == CallOf(o[i])
  IN \A k \in DOMAIN o :
       (k # i /\ IsPrefix(whose, o[k].key)) =>
         /\ i < k
         /\ \A j \in closes : k <= j

Balanced(o) ==
  /\ NeverNegative(o)
  /\ NestDepth(o, Len(o)) = 0
  /\ \A i \in OpenLines(o) :
       /\ Cardinality(ClosesOf(o, i)) = 1
       /\ \A j \in ClosesOf(o, i) : i < j
       /\ BodyInside(o, i)

\* C3 as stated: the output of every run, completed or aborted, is balanced.
C3_Original == Finished => Balanced(bundle)

\* C3 (amended): the output of a run that completes is balanced (one closing
\* line per opening line, written by the same call, the body between them,
\* depth zero at the end); in every output, also of an aborted run, the depth
\* never goes negative, no opening line has more than one closing line and
\* the lines of a block follow its opening line and precede its closing line.
C3_BalancedWhenDone ==
  /\ status = "done" => Balanced(bundle)
  /\ NeverNegative(bundle)
  /\ \A i \in OpenLines(bundle) :
       /\ Cardinality(ClosesOf(bundle, i)) <= 1
       /\ BodyInside(bundle, i)

\* A completed run whose output holds a block nested in another block.
C3_Witness ==
  /\ status = "done"
  /\ \E i, j \in DOMAIN bundle :
       /\ bundle[i].kind = "open" /\ bundle[j].kind = "open"
       /\ i < j
       /\ IsPrefix(CallOf(bundle[i]), CallOf(bundle[j]))
       /\ \E k \in ClosesOf(bundle, i) : j < k

\* ---------------------------------------------------------------------- C4
Done(i) == log[i].status # "running"
Texts(o) == [k \in DOMAIN o |-> o[k].text]

\* C4: two runs with the same entry file, library, module files, crate name
\* and minify flag leave the same output, also when they are two successive
\* run() calls on one Bundler value.
C4_Deterministic ==
  \A i, j \in DOMAIN log :
    (Done(i) /\ Done(j) /\ log[i].crate = log[j].crate
       /\ log[i].minify = log[j].minify) =>
      /\ Texts(log[i].out) = Texts(log[j].out)
      /\ log[i].status = log[j].status

\* ---------------------------------------------------------------------- C5
RECURSIVE StripWs(_)
StripWs(s) ==
  IF s # <<>> /\ IsWs(Head(s)) THEN StripWs(Tail(s))
  ELSE IF s # <<>> /\ IsWs(s[Len(s)]) THEN StripWs(SubSeq(s, 1, Len(s) - 1))
  ELSE s

SameButBlanks(a, b) ==
  /\ Len(a.out) = Len(b.out)
  /\ a.status = b.status
  /\ a.skip = b.skip
  /\ \A k \in DOMAIN a.out :
       /\ a.out[k].kind = b.out[k].kind
       /\ a.out[k].key = b.out[k].key
       /\ a.out[k].path = b.out[k].path
       /\ a.out[k].pos = b.out[k].pos
       /\ a.out[k].kind # "pass" => a.out[k].text = b.out[k].text
       /\ StripWs(a.out[k].text) = StripWs(b.out[k].text)

\* C5: a run with minify on and a run with minify off, from the same files,
\* crate name and Bundler state, write the same number of lines from the same
\* source lines in the same order, open and close the same blocks at the
\* same places, drop and rewrite the same use lines, end alike and with the
\* same skip_use; only the blanks at the ends of passthrough lines differ.
C5_MinifyCosmetic ==
  \A i, j \in DOMAIN log :
    (Done(i) /\ Done(j) /\ log[i].crate = log[j].crate
       /\ log[i].skip0 = log[j].skip0 /\ ~log[i].minify /\ log[j].minify) =>
      SameButBlanks(log[i], log[j])

\* Two completed runs, one plain and one minified, that expanded modules and
\* whose outputs differ.
C5_Witness ==
  \E i, j \in DOMAIN log :
    /\ log[i].status = "done" /\ log[j].status = "done"
    /\ log[i].crate = Demo /\ log[j].crate = Demo
    /\ log[i].skip0 = log[j].skip0
    /\ ~log[i].minify /\ log[j].minify
    /\ Texts(log[i].out) # Texts(log[j].out)
    /\ \E k \in DOMAIN log[j].out : log[j].out[k].kind = "open"
    /\ \E k \in DOMAIN log[j].out :
         /\ log[j].out[k].path = BINRS_FILENAME
         /\ log[j].out[k].text = S_extern_crate \o Demo \o S_semi

\* ---------------------------------------------------------------------- C6
\* a comes before b in the depth-first, declaration-order walk of the tree
LexLess(a, b) ==
  \E i \in 1..(Len(a) + 1) :
    /\ \A k \in 1..(i - 1) : k <= Len(b) /\ a[k] = b[k]
    /\ \/ i = Len(a) + 1 /\ Len(b) > Len(a)
       \/ i <= Len(a) /\ i <= Len(b) /\ a[i] < b[i]

\* the declaring file visit and the declaration's line of an opening line
ParentOf(r) == SubSeq(CallOf(r), 1, Len(CallOf(r)) - 1)
DeclPos(r) == CallOf(r)[Len(CallOf(r))]

\* C6: the written lines are in depth-first, declaration order: each line's
\* place in the module tree is after the place of the line written before
\* it; for `pub mod X;` declared before `pub mod Y;` in one file, every line
\* of X's block (its nested blocks included) precedes Y's opening line; the
\* declaring file's own lines before the declaration precede the block and
\* those after it follow the block.
C6_DepthFirstOrder ==
  /\ \A k \in 1..(Len(bundle) - 1) : LexLess(bundle[k].key, bundle[k + 1].key)
  /\ \A i, j \in OpenLines(bundle) :
       (/\ ParentOf(bundle[i]) = ParentOf(bundle[j])
        /\ DeclPos(bundle[i]) < DeclPos(bundle[j])) =>
         \A k \in DOMAIN bundle :
           IsPrefix(CallOf(bundle[i]), bundle[k].key) => k < j
  /\ \A i \in OpenLines(bundle) :
       LET closes == ClosesOf(bundle, i) IN
       \A k \in DOMAIN bundle :
         (/\ bundle[k].kind = "pass"
          /\ SubSeq(bundle[k].key, 1, Len(bundle[k].key) - 1) = ParentOf(bundle[i])) =>
           IF Last(bundle[k].key) < DeclPos(bundle[i])
           THEN k < i
           ELSE \A j \in closes : j < k

\* A completed run: block X with a nested block in it, then its sibling Y,
\* then a line of the declaring file.
C6_Witness ==
  /\ status = "done"
  /\ \E i, n, j, k \in DOMAIN bundle :
       /\ i < n /\ n < j /\ j < k
       /\ bundle[i].kind = "open" /\ bundle[n].kind = "open"
       /\ bundle[j].kind = "open" /\ bundle[k].kind \in {"pass", "use"}
       /\ IsPrefix(CallOf(bundle[i]), CallOf(bundle[n]))
       /\ ParentOf(bundle[i]) = ParentOf(bundle[j])
       /\ Len(bundle[k].key) = 1

\* ---------------------------------------------------------------------- C7
FlatFile(stem) == S_src \o stem \o S_rs
IndexFile(stem) == S_src \o stem \o S_mod_rs
KnownAbsent(f, path) == path \in DOMAIN f /\ ~f[path].exists
KnownPresent(f, path) == path \in DOMAIN f /\ f[path].exists

\* the path stem of the module the line being read declares, if it declares
\* one that is not tests
DeclaredStems ==
  IF Reading /\ Top.fn \in {"librs", "usemod"}
     /\ ~Comment(trim_end(CurLine)) /\ ~Lint(trim_end(CurLine))
  THEN {IF Top.fn = "librs" THEN name ELSE Top.mod_path \o S_slash \o name :
          name \in {n \in {SubSeq(trim_end(CurLine), i, Len(trim_end(CurLine)) - 1) :
                             i \in 1..Len(trim_end(CurLine))} :
                      /\ n # S_tests
                      /\ n # <<>>
                      /\ AfterWs(trim_end(CurLine)) = S_pub_mod \o n \o S_semi}}
  ELSE {}

C7_Frames(stk, f) ==
  \A i \in DOMAIN stk :
    stk[i].fn = "usemod" =>
      \/ stk[i].path = FlatFile(stk[i].mod_path)
           /\ KnownPresent(f, FlatFile(stk[i].mod_path))
      \/ stk[i].path = IndexFile(stk[i].mod_path)
           /\ KnownAbsent(f, FlatFile(stk[i].mod_path))
           /\ KnownPresent(f, IndexFile(stk[i].mod_path))

C7_Step ==
  /\ C7_Frames(stack', fs')
  /\ \A stem \in DeclaredStems :
       IF KnownAbsent(fs', FlatFile(stem)) /\ KnownAbsent(fs', IndexFile(stem))
       THEN /\ status' = "panic_mod"
            /\ bundle' = bundle
            /\ skip_use' = skip_use
       ELSE /\ status' = "running"
            /\ Len(stack') = Len(stack) + 1
            /\ Last(stack').fn = "usemod"
            /\ Last(stack').mod_path = stem
  /\ (status' = "panic_mod" /\ status # "panic_mod") => DeclaredStems # {}
  /\ Panicked => bundle' = bundle

\* C7: usemod reads src/P.rs if it exists, else src/P/mod.rs if that exists;
\* if neither exists the run panics in that step, writing no opening line
\* and inserting nothing into skip_use, and nothing is appended to the
\* output afterwards; a declared module is never passed over.
C7_ResolveOrAbort == [][C7_Step]_vars

\* A run that used a directory-index file for one module and then aborted on
\* a module with no file, lines already written.
C7_Witness ==
  /\ status = "panic_mod"
  /\ \E r \in Written : r.kind = "pass" /\ IsDirIndex(r.path)

\* ---------------------------------------------------------------------- C8
\* C8: from the first run() on, whatever the state of the run (created,
\* running, completed, aborted), every line in the output file was written
\* by the latest run; the file is empty when binrs is about to open the entry
\* file and after a run that found no entry file.
C8_NoStaleOutput ==
  /\ Len(log) >= 1 => \A r \in Recs : r.run = Len(log)
  /\ status \in {"created", "panic_entry"} => bundle = <<>>

\* A second run that aborted after a first run had completed with output.
C8_Witness ==
  /\ Len(log) >= 2
  /\ log[Len(log) - 1].status = "done" /\ log[Len(log) - 1].out # <<>>
  /\ Panicked
  /\ Len(bundle) < Len(log[Len(log) - 1].out)

\* ---------------------------------------------------------------------- C9
Suppressed ==
  Reading /\ UsePaths(_crate_name, trim_end(CurLine)) \cap skip_use # {}

\* C9 as stated: a use line naming an inserted module writes nothing,
\* wherever it is met.
C9_Original == [][Suppressed => bundle' = bundle]_vars

C9_Step ==
  /\ \A i \in DOMAIN stack' :
       stack'[i].fn = "usemod" =>
         /\ stack'[i].mod_import \in skip_use'
         /\ \E r \in {bundle'[k] : k \in DOMAIN bundle'} :
              r.kind = "open" /\ CallOf(r) = stack'[i].addr
  /\ (status = "running" /\ Len(stack') > Len(stack) /\ Last(stack').fn = "usemod") =>
       /\ Last(stack').pos = 1
       /\ skip_use' = skip_use \cup {Last(stack').mod_import}
  /\ status = "running" => skip_use \subseteq skip_use'
  /\ (Suppressed /\ Top.fn = "binrs") => bundle' = bundle
  /\ (Suppressed /\ Top.fn # "binrs") =>
       /\ Len(bundle') = Len(bundle) + 1
       /\ Last(bundle').kind = "pass"
       /\ StripWs(Last(bundle').text) = trim_end(CurLine)

\* C9 (amended): usemod inserts import_path after writing the opening line
\* and before reading the first body line; the path then stays in skip_use
\* for the rest of the run, and every later line `use <crate_name>::<path>;`
\* met in the entry file writes nothing.  Such a line met in lib.rs or in a
\* module file (the module's own body, a later sibling) is not suppressed:
\* it is written as a passthrough line.
C9_SuppressedInEntry == [][C9_Step]_vars

\* A completed run in which a use line naming an inserted module was written
\* from a module file and one in the entry file was dropped.
C9_Witness ==
  /\ status = "done"
  /\ \E r \in Written :
       /\ r.kind = "pass"
       /\ r.path \notin {BINRS_FILENAME, LIBRS_FILENAME}
       /\ UsePaths(ThisCrate, SrcLine(r)) \cap skip_use # {}
       /\ \E p \in UsePaths(ThisCrate, SrcLine(r)) : r.path = FlatFile(p)
  /\ \E i \in DOMAIN fs[BINRS_FILENAME].lines :
       /\ i > 1
       /\ UsePaths(ThisCrate, fs[BINRS_FILENAME].lines[i]) \cap skip_use # {}
       /\ ~ \E r \in Written : r.path = BINRS_FILENAME /\ r.pos = i

\* --------------------------------------------------------------------- C10
\* the line is a declaration or import the function of the top frame acts on
Special(fn, name, line) ==
  IF fn = "binrs"
  THEN line = S_extern_crate \o name \o S_semi \/ UsePaths(name, line) # {}
  ELSE \E i \in 0..Len(line) :
         /\ \A k \in 1..i : IsWs(line[k])
         /\ Len(line) >= i + Len(S_pub_mod) + 2
         /\ SubSeq(line, i + 1, i + Len(S_pub_mod)) = S_pub_mod
         /\ line[Len(line)] = ";"

FnOf(path) ==
  IF path = BINRS_FILENAME THEN "binrs"
  ELSE IF path = LIBRS_FILENAME THEN "librs" ELSE "usemod"

\* the line written as o[k] comes from a source line that is no comment and
\* no lint attribute, by the one rule that applies to that line, and no
\* other line was written for the same source line
C10_Line(o, k, f, name) ==
  LET line == trim_end(f[o[k].path].lines[o[k].pos]) IN
  /\ ~Comment(line) /\ ~Lint(line)
  /\ o[k].kind = "pass" <=> ~Special(FnOf(o[k].path), name, line)
  /\ o[k].kind = "use" => FnOf(o[k].path) = "binrs" /\ UsePaths(name, line) # {}
  /\ o[k].kind \in {"open", "close"} => FnOf(o[k].path) # "binrs"
  /\ o[k].kind \in {"pass", "use"} => \A n \in 1..(k - 1) : o[n].key # o[k].key

C10_Step ==
  /\ status = "running" =>
       /\ Len(bundle') >= Len(bundle)
       /\ SubSeq(bundle', 1, Len(bundle)) = bundle
       /\ \A k \in (Len(bundle) + 1)..Len(bundle') :
            C10_Line(bundle', k, fs', ThisCrate)
  /\ (Reading /\ (Comment(trim_end(CurLine)) \/ Lint(trim_end(CurLine)))) =>
       /\ bundle' = bundle
       /\ skip_use' = skip_use
       /\ fs' = fs
       /\ status' = status
       /\ stack' = Advance(stack)
  /\ (/\ Reading
      /\ ~Comment(trim_end(CurLine)) /\ ~Lint(trim_end(CurLine))
      /\ ~Special(Top.fn, _crate_name, trim_end(CurLine))) =>
       /\ Len(bundle') = Len(bundle) + 1
       /\ Last(bundle').kind = "pass"
       /\ Last(bundle').path = Top.path /\ Last(bundle').pos = Top.pos
       /\ Last(bundle').text \in {trim_end(CurLine), StripWs(CurLine)}
       /\ skip_use' = skip_use /\ fs' = fs /\ stack' = Advance(stack)

\* C10: in binrs, librs and usemod a line matching the comment or the lint
\* pattern writes nothing and does nothing else (no file opened, no call, no
\* insertion into skip_use), whatever else its text contains; every written
\* line comes from a source line that matches neither, by exactly one rule:
\* a passthrough line from a line that is no declaration or import of the
\* function reading it, a rewritten import from a use line of the entry file,
\* block delimiters from lib.rs or a module file; a line matching no rule is
\* written as one passthrough line.
C10_FirstMatch == [][C10_Step]_vars

\* A completed run that met comment lines holding `extern crate demo;`, a use
\* line and `pub mod a;` in the entry file and in a module file, and a lint
\* line.
C10_Witness ==
  /\ status = "done"
  /\ ThisCrate = Demo
  /\ \E i \in DOMAIN fs[BINRS_FILENAME].lines :
       fs[BINRS_FILENAME].lines[i] = S_comment \o <<" ">> \o S_extern_crate \o Demo \o S_semi
  /\ \E r \in Written :
       /\ FnOf(r.path) = "usemod"
       /\ r.pos > 3
       /\ fs[r.path].lines[1] = S_comment \o <<" ">> \o S_pub_mod \o <<"a">> \o S_semi
       /\ Lint(fs[r.path].lines[3])

====
